---- MODULE Spec2Model ----
(***************************************************************************)
(* anki-md-sync: the line-oriented markdown parser (src/src/lib.rs) and    *)
(* the loop of main (src/src/main.rs) that feeds files, one after another, *)
(* to the single Parser owned by the single AnkiSync.                      *)
(*                                                                         *)
(* Lines are strings.  A document is the sequence of lines handed to       *)
(* handle_event between the entry of parse_file and its finalize call.     *)
(***************************************************************************)
EXTENDS Integers, Sequences, FiniteSets, TLC

(***************************************************************************)
(* Bounds of the model.                                                    *)
(***************************************************************************)
\* files main iterates over
MaxDocs == 2
\* lines handled by the parser instance over its whole life (caps line_num)
MaxLineNum == 7

(***************************************************************************)
(* Program constants.                                                      *)
(***************************************************************************)
METADATA_DELIM == "---"
METADATA_KEY_VALUE_DELIM == ":"
DECK == "deck"
\* AnkiMarkdownHandler::default
QuestionToken == "Q: "
AnswerToken == "A: "

\* the lines a file may hold
Lines ==
    { "---", "----", "deck: S", "deck", "Q: h", "A: h", "", "x" }

(***************************************************************************)
(* Values.                                                                 *)
(***************************************************************************)
\* Option<Deck>: the empty sequence is None, <<d>> is Some(Deck(d))
None == <<>>
Some(d) == <<d>>

\* Result<_, ParseError> / Result<_, AnkiSyncError>
Ok == [kind |-> "Ok"]
InvalidStateChange(n) == [kind |-> "InvalidStateChange", line |-> n]
UnexpectedParsingEnd == [kind |-> "UnexpectedParsingEnd"]
InvalidMetadata(detail) == [kind |-> "InvalidMetadata", detail |-> detail]
MissingDeck == [kind |-> "MissingDeck"]
IOError == [kind |-> "IOError"]
ApiError == [kind |-> "ApiError"]
NoResult == [kind |-> "NoResult"]

\* markdown::to_html, an external pure function: an opaque wrapper
to_html(text) == [html |-> text]

ParsedNote(deck, question, answer) ==
    [deck |-> deck, model |-> "Basic", question |-> question, answer |-> answer]

(***************************************************************************)
(* String helpers of the standard library, as the code uses them.          *)
(***************************************************************************)
CharAt(s, i) == SubSeq(s, i, i)

starts_with(s, prefix) ==
    /\ Len(s) >= Len(prefix)
    /\ SubSeq(s, 1, Len(prefix)) = prefix

\* bytes of the UTF-8 encoding of a character
utf8_len(c) ==
    CASE c = "é" -> 2
      [] c = "→" -> 3
      [] OTHER -> 1

\* str::len, in bytes
RECURSIVE ByteLen(_)
ByteLen(s) ==
    IF s = "" THEN 0 ELSE utf8_len(CharAt(s, 1)) + ByteLen(SubSeq(s, 2, Len(s)))

\* str::chars().count()
chars_count(s) == Len(s)

\* the numbers of leading characters of s that take exactly n bytes
CharsBefore(s, n) == {k \in 0..Len(s) : ByteLen(SubSeq(s, 1, k)) = n}

\* indexing a str by a byte offset panics off a character boundary
is_char_boundary(s, n) == CharsBefore(s, n) # {}

\* &event[n..], n a byte offset on a character boundary
SliceFrom(s, n) ==
    SubSeq(s, (CHOOSE k \in CharsBefore(s, n) : TRUE) + 1, Len(s))

\* position of the first delimiter at or after i, or Len(s) + 1
RECURSIVE FindDelim(_, _, _)
FindDelim(s, d, i) ==
    IF i > Len(s) THEN Len(s) + 1
    ELSE IF CharAt(s, i) = d THEN i
    ELSE FindDelim(s, d, i + 1)

\* str::split(d).collect(): the pieces between every occurrence of d
RECURSIVE split(_, _)
split(s, d) ==
    LET k == FindDelim(s, d, 1) IN
    IF k > Len(s) THEN <<s>>
    ELSE <<SubSeq(s, 1, k - 1)>> \o split(SubSeq(s, k + 1, Len(s)), d)

IsSpace(c) == c \in {" ", "\t"}

RECURSIVE trim_start(_)
trim_start(s) ==
    IF Len(s) > 0 /\ IsSpace(CharAt(s, 1)) THEN trim_start(SubSeq(s, 2, Len(s)))
    ELSE s

RECURSIVE trim_end(_)
trim_end(s) ==
    IF Len(s) > 0 /\ IsSpace(CharAt(s, Len(s))) THEN trim_end(SubSeq(s, 1, Len(s) - 1))
    ELSE s

trim(s) == trim_end(trim_start(s))

(***************************************************************************)
(* ParseState                                                              *)
(***************************************************************************)
ParseState == {"Start", "InMetadata", "ExpectingQuestion", "InQuestion", "InAnswer"}

next(state) ==
    CASE state = "Start" -> "InMetadata"
      [] state = "InMetadata" -> "ExpectingQuestion"
      [] state = "ExpectingQuestion" -> "InQuestion"
      [] state = "InQuestion" -> "InAnswer"
      [] state = "InAnswer" -> "InQuestion"

\* Ok(Start) from InAnswer, Err(UnexpectedParsingEnd) otherwise
reset(state) ==
    IF state = "InAnswer" THEN [r |-> Ok, state |-> "Start"]
    ELSE [r |-> UnexpectedParsingEnd, state |-> state]

(***************************************************************************)
(* Parser                                                                  *)
(***************************************************************************)
NewParser ==
    [ state |-> "Start",
      deck |-> None,
      question |-> "",
      answer |-> "",
      parsed |-> <<>>,
      line_num |-> 0 ]

\* the thread panics inside the call
Panic == [type |-> "Panic"]

\* the four token fields Parser::new sets
NewTokens(question_token, answer_token) ==
    [ question_token |-> question_token,
      question_token_len |-> chars_count(question_token),
      answer_token |-> answer_token,
      answer_token_len |-> chars_count(answer_token) ]

\* ParseEventType
parse_event_type(event, question_token, question_token_len, answer_token, answer_token_len) ==
    IF starts_with(event, METADATA_DELIM) THEN
        [type |-> "MetadataDelimiter"]
    ELSE IF starts_with(event, question_token) THEN
        IF is_char_boundary(event, question_token_len)
        THEN [type |-> "QuestionStart", text |-> SliceFrom(event, question_token_len)]
        ELSE Panic
    ELSE IF starts_with(event, answer_token) THEN
        IF is_char_boundary(event, answer_token_len)
        THEN [type |-> "AnswerStart", text |-> SliceFrom(event, answer_token_len)]
        ELSE Panic
    ELSE IF event = "" THEN
        [type |-> "Empty"]
    ELSE
        [type |-> "Text", text |-> event]

\* faulty variant: the buffers are not cleared after the note is built
finalize_note_keeps_buffers(p) ==
    IF p.deck = None THEN [p |-> p, r |-> MissingDeck]
    ELSE [ p |-> [p EXCEPT !.parsed = Append(@, ParsedNote(p.deck[1],
                                                          to_html(p.question),
                                                          to_html(p.answer)))],
           r |-> Ok ]

\* faulty variant: a missing deck is silently defaulted
finalize_note_default_deck(p) ==
    LET deck == IF p.deck = None THEN "Default" ELSE p.deck[1] IN
    [ p |-> [p EXCEPT !.parsed = Append(@, ParsedNote(deck,
                                                      to_html(p.question),
                                                      to_html(p.answer))),
                      !.question = "",
                      !.answer = ""],
      r |-> Ok ]

\* every handler yields the parser after the call and the call's result
finalize_note(p) ==
    IF p.deck = None THEN [p |-> p, r |-> MissingDeck]
    ELSE [ p |-> [p EXCEPT !.parsed = Append(@, ParsedNote(p.deck[1],
                                                          to_html(p.question),
                                                          to_html(p.answer))),
                           !.question = "",
                           !.answer = ""],
           r |-> Ok ]

\* faulty variant: a fence outside the header is ignored
handle_metadata_delim_lenient(p) ==
    IF p.state \in {"Start", "InMetadata"} THEN
        [p |-> [p EXCEPT !.state = next(p.state)], r |-> Ok]
    ELSE [p |-> p, r |-> Ok]

handle_metadata_delim(p) ==
    IF p.state \in {"Start", "InMetadata"} THEN
        [p |-> [p EXCEPT !.state = next(p.state)], r |-> Ok]
    ELSE [p |-> p, r |-> InvalidStateChange(p.line_num)]

\* faulty variant: a question after an answer does not close the note
handle_question_start_no_assembly(p, event) ==
    IF p.state \in {"ExpectingQuestion", "InAnswer"} THEN
        [ p |-> [p EXCEPT !.question = @ \o event \o "\n", !.state = next(p.state)],
          r |-> Ok ]
    ELSE [p |-> p, r |-> InvalidStateChange(p.line_num)]

handle_question_start(p, event) ==
    IF p.state = "ExpectingQuestion" THEN
        [ p |-> [p EXCEPT !.question = @ \o event \o "\n", !.state = next(p.state)],
          r |-> Ok ]
    ELSE IF p.state = "InAnswer" THEN
        LET fn == finalize_note(p) IN
        IF fn.r # Ok THEN fn
        ELSE [ p |-> [fn.p EXCEPT !.question = @ \o event \o "\n",
                                  !.state = next(fn.p.state)],
               r |-> Ok ]
    ELSE [p |-> p, r |-> InvalidStateChange(p.line_num)]

handle_answer_start(p, event) ==
    IF p.state = "InQuestion" THEN
        [ p |-> [p EXCEPT !.answer = @ \o event \o "\n", !.state = next(p.state)],
          r |-> Ok ]
    ELSE [p |-> p, r |-> InvalidStateChange(p.line_num)]

\* faulty variant: a deck line after the first is ignored
handle_text_first_deck_wins(p, event) ==
    IF p.state = "InQuestion" THEN
        [p |-> [p EXCEPT !.question = @ \o event \o "\n"], r |-> Ok]
    ELSE IF p.state = "InAnswer" THEN
        [p |-> [p EXCEPT !.answer = @ \o event \o "\n"], r |-> Ok]
    ELSE IF p.state = "InMetadata" THEN
        LET parts == split(event, METADATA_KEY_VALUE_DELIM) IN
        IF Len(parts) # 2 THEN
            [p |-> p, r |-> InvalidMetadata("Unable to parse line: " \o event)]
        ELSE IF parts[1] # DECK THEN
            [p |-> p, r |-> InvalidMetadata("Expecting 'deck' keyword, found: " \o event)]
        ELSE IF p.deck # None THEN [p |-> p, r |-> Ok]
        ELSE
            [p |-> [p EXCEPT !.deck = Some(trim(parts[2]))], r |-> Ok]
    ELSE [p |-> p, r |-> InvalidStateChange(p.line_num)]

\* faulty variant: a deck line inside an answer body is taken as metadata too
handle_text_deck_anywhere(p, event) ==
    LET parts == split(event, METADATA_KEY_VALUE_DELIM) IN
    IF p.state = "InQuestion" THEN
        [p |-> [p EXCEPT !.question = @ \o event \o "\n"], r |-> Ok]
    ELSE IF p.state = "InAnswer" THEN
        [ p |-> [p EXCEPT !.answer = @ \o event \o "\n",
                          !.deck = IF Len(parts) = 2 /\ parts[1] = DECK
                                   THEN Some(trim(parts[2])) ELSE @],
          r |-> Ok ]
    ELSE IF p.state = "InMetadata" THEN
        IF Len(parts) # 2 THEN
            [p |-> p, r |-> InvalidMetadata("Unable to parse line: " \o event)]
        ELSE IF parts[1] # DECK THEN
            [p |-> p, r |-> InvalidMetadata("Expecting 'deck' keyword, found: " \o event)]
        ELSE
            [p |-> [p EXCEPT !.deck = Some(trim(parts[2]))], r |-> Ok]
    ELSE [p |-> p, r |-> InvalidStateChange(p.line_num)]

handle_text(p, event) ==
    IF p.state = "InQuestion" THEN
        [p |-> [p EXCEPT !.question = @ \o event \o "\n"], r |-> Ok]
    ELSE IF p.state = "InAnswer" THEN
        [p |-> [p EXCEPT !.answer = @ \o event \o "\n"], r |-> Ok]
    ELSE IF p.state = "InMetadata" THEN
        LET parts == split(event, METADATA_KEY_VALUE_DELIM) IN
        IF Len(parts) # 2 THEN
            [p |-> p, r |-> InvalidMetadata("Unable to parse line: " \o event)]
        ELSE IF parts[1] # DECK THEN
            [p |-> p, r |-> InvalidMetadata("Expecting 'deck' keyword, found: " \o event)]
        ELSE
            [p |-> [p EXCEPT !.deck = Some(trim(parts[2]))], r |-> Ok]
    ELSE [p |-> p, r |-> InvalidStateChange(p.line_num)]

\* faulty variant: blank lines of a question are dropped
handle_empty_drops_question_blank(p) ==
    IF p.state = "InAnswer" THEN [p |-> [p EXCEPT !.answer = @ \o "\n"], r |-> Ok]
    ELSE [p |-> p, r |-> Ok]

handle_empty(p) ==
    IF p.state = "InQuestion" THEN [p |-> [p EXCEPT !.question = @ \o "\n"], r |-> Ok]
    ELSE IF p.state = "InAnswer" THEN [p |-> [p EXCEPT !.answer = @ \o "\n"], r |-> Ok]
    ELSE [p |-> p, r |-> Ok]

parse(p, event_type) ==
    CASE event_type.type = "MetadataDelimiter" -> handle_metadata_delim(p)
      [] event_type.type = "QuestionStart" -> handle_question_start(p, event_type.text)
      [] event_type.type = "AnswerStart" -> handle_answer_start(p, event_type.text)
      [] event_type.type = "Text" -> handle_text(p, event_type.text)
      [] event_type.type = "Empty" -> handle_empty(p)

\* Parser.question_token, question_token_len, answer_token, answer_token_len:
\* set by Parser::new, changed by no call
VARIABLE tokens

classify(event) ==
    parse_event_type(event,
                     tokens.question_token, tokens.question_token_len,
                     tokens.answer_token, tokens.answer_token_len)

\* faulty variant: a failing line is not counted
handle_event_counts_successes(p, event) ==
    LET out == parse(p, classify(event)) IN
    [ p |-> IF out.r = Ok THEN [out.p EXCEPT !.line_num = @ + 1] ELSE out.p,
      r |-> out.r ]

handle_event(p, event) ==
    LET out == parse(p, classify(event)) IN
    [p |-> [out.p EXCEPT !.line_num = @ + 1], r |-> out.r]

\* faulty variant: the deck is cleared before the state is looked at
finalize_clears_first(p) ==
    IF p.state = "InAnswer" THEN
        LET fn == finalize_note(p) IN
        IF fn.r # Ok THEN [p |-> [fn.p EXCEPT !.deck = None], r |-> fn.r, notes |-> <<>>]
        ELSE [ p |-> [fn.p EXCEPT !.state = "Start", !.deck = None, !.parsed = <<>>],
               r |-> Ok,
               notes |-> fn.p.parsed ]
    ELSE [ p |-> [p EXCEPT !.deck = None],
           r |-> InvalidStateChange(p.line_num),
           notes |-> <<>> ]

\* faulty variant: a dangling question is completed at the end of input
finalize_from_question(p) ==
    IF p.state \in {"InQuestion", "InAnswer"} THEN
        LET fn == finalize_note(p) IN
        IF fn.r # Ok THEN [p |-> fn.p, r |-> fn.r, notes |-> <<>>]
        ELSE [ p |-> [fn.p EXCEPT !.state = "Start", !.deck = None, !.parsed = <<>>],
               r |-> Ok,
               notes |-> fn.p.parsed ]
    ELSE [p |-> p, r |-> InvalidStateChange(p.line_num), notes |-> <<>>]

\* r is the error, or Ok with the returned notes
finalize(p) ==
    IF p.state = "InAnswer" THEN
        LET fn == finalize_note(p) IN
        IF fn.r # Ok THEN [p |-> fn.p, r |-> fn.r, notes |-> <<>>]
        ELSE LET rs == reset(fn.p.state) IN
             IF rs.r # Ok THEN [p |-> fn.p, r |-> rs.r, notes |-> <<>>]
             ELSE [ p |-> [fn.p EXCEPT !.state = rs.state, !.deck = None, !.parsed = <<>>],
                    r |-> Ok,
                    notes |-> fn.p.parsed ]
    ELSE [p |-> p, r |-> InvalidStateChange(p.line_num), notes |-> <<>>]

(***************************************************************************)
(* The program: main iterates over the files, sync_file parses each with   *)
(* the parser of the one AnkiSync and hands the notes to add_notes.        *)
(***************************************************************************)
VARIABLES
    parser,      \* AnkiSync.md_handler.parser
    pc,          \* "idle": main between two files; "reading": inside the loop
                 \* of parse_file; "done": main returned
    docNo,       \* files main has started to sync
    doc,         \* the lines of the current file read so far
    entry,       \* the parser as it was when parse_file was entered
    op,          \* the last call made
    event_type,  \* the event the last handle_event classified its line as
    result,      \* what the last parser call (or the read) returned
    sync_result, \* what the last sync_file returned to main
    sink         \* the batches add_notes has posted, in order

vars == <<tokens, parser, pc, docNo, doc, entry, op, event_type, result, sync_result, sink>>

NoEvent == [type |-> "None"]

\* the scratch state of a new parser, before main has taken a file
InitScratch ==
    /\ parser = NewParser
    /\ pc = "idle"
    /\ docNo = 0
    /\ doc = <<>>
    /\ entry = NewParser
    /\ op = "new"
    /\ event_type = NoEvent
    /\ result = NoResult
    /\ sync_result = NoResult
    /\ sink = <<>>

\* AnkiSync::new: the handler and its parser with the default tokens
Init ==
    /\ tokens = NewTokens(QuestionToken, AnswerToken)
    /\ InitScratch

\* main takes the next file and sync_file / parse_file opens it
StartFile ==
    /\ pc = "idle"
    /\ docNo < MaxDocs
    /\ pc' = "reading"
    /\ docNo' = docNo + 1
    /\ doc' = <<>>
    /\ entry' = parser
    /\ op' = "open"
    /\ event_type' = NoEvent
    /\ result' = NoResult
    /\ sync_result' = NoResult
    /\ UNCHANGED <<tokens, parser, sink>>

\* File::open or a line read fails: parse_file returns the io error
IoFail ==
    /\ \/ /\ pc = "idle"
          /\ docNo < MaxDocs
          /\ docNo' = docNo + 1
          /\ doc' = <<>>
          /\ entry' = parser
       \/ /\ pc = "reading"
          /\ UNCHANGED <<docNo, doc, entry>>
    /\ pc' = "idle"
    /\ op' = "io"
    /\ event_type' = NoEvent
    /\ result' = IOError
    /\ sync_result' = IOError
    /\ UNCHANGED <<tokens, parser, sink>>

\* one turn of the loop of parse_file
HandleEvent(event) ==
    /\ pc = "reading"
    /\ parser.line_num < MaxLineNum
    /\ LET out == handle_event(parser, event) IN
        /\ parser' = out.p
        /\ result' = out.r
        /\ pc' = IF out.r = Ok THEN "reading" ELSE "idle"
        /\ sync_result' = IF out.r = Ok THEN NoResult ELSE out.r
    /\ doc' = Append(doc, event)
    /\ op' = "handle_event"
    /\ event_type' = classify(event)
    /\ UNCHANGED <<tokens, docNo, entry, sink>>

\* the file is exhausted: finalize, then add_notes posts what it returned
EndOfFile(api_ok) ==
    /\ pc = "reading"
    /\ LET out == finalize(parser) IN
        /\ parser' = out.p
        /\ result' = out.r
        /\ IF out.r = Ok
           THEN /\ sink' = Append(sink, out.notes)
                /\ sync_result' = IF api_ok THEN Ok ELSE ApiError
           ELSE /\ sink' = sink
                /\ sync_result' = out.r
    /\ pc' = "idle"
    /\ op' = "finalize"
    /\ event_type' = NoEvent
    /\ UNCHANGED <<tokens, docNo, doc, entry>>

\* no file is left
Finish ==
    /\ pc = "idle"
    /\ pc' = "done"
    /\ op' = "return"
    /\ UNCHANGED <<tokens, parser, docNo, doc, entry, event_type, result, sync_result, sink>>

Next ==
    \/ StartFile
    \/ IoFail
    \/ \E event \in Lines : HandleEvent(event)
    \/ \E api_ok \in BOOLEAN : EndOfFile(api_ok)
    \/ Finish

(***************************************************************************)
(* The classifier on its own: a parser made by Parser::new with any pair   *)
(* of tokens classifies one line.                                          *)
(***************************************************************************)
Tokens == {"Q: ", "A: ", "é: ", "Q:é", "→ "}

\* lines that start with a token, and lines that do not
ClassifyLines ==
    {"---", "", "x"} \cup {t \o "h" : t \in Tokens} \cup Tokens

InitClassify ==
    /\ \E question_token \in Tokens, answer_token \in Tokens :
          /\ question_token # answer_token
          /\ tokens = NewTokens(question_token, answer_token)
    /\ InitScratch

Classify(event) ==
    /\ op = "new"
    /\ event_type' = classify(event)
    /\ doc' = <<event>>
    /\ op' = "classify"
    /\ UNCHANGED <<tokens, parser, pc, docNo, entry, result, sync_result, sink>>

NextClassify == \E event \in ClassifyLines : Classify(event)

SpecClassify == InitClassify /\ [][NextClassify]_vars

\* files whose header lines vary: two deck values, a value holding a colon,
\* another key, a line without a colon
MetaLines ==
    { "---", "deck: S", "deck:T ", "deck: a:b", "name: S", "deck", "Q: h", "A: h" }

NextMeta ==
    \/ StartFile
    \/ IoFail
    \/ \E event \in MetaLines : HandleEvent(event)
    \/ \E api_ok \in BOOLEAN : EndOfFile(api_ok)
    \/ Finish

SpecMeta == Init /\ [][NextMeta]_vars

Spec == Init /\ [][Next]_vars

TypeOK ==
    /\ parser.state \in ParseState
    /\ pc \in {"idle", "reading", "done"}
    /\ docNo \in 0..MaxDocs
    /\ parser.line_num \in 0..MaxLineNum
    /\ Len(parser.deck) <= 1

(***************************************************************************)
(* What the specification says a well-formed document is and which notes   *)
(* it holds, stated on the lines of the document alone.                    *)
(***************************************************************************)
DeckNames == {"S"}

TypeOf(line) == classify(line).type

IsContinuation(line) == TypeOf(line) \in {"Text", "Empty"}

\* the lines before the first question: fence, deck line, fence
HeaderLine(line, i) ==
    CASE i = 1 -> line = METADATA_DELIM
      [] i = 2 -> \E X \in DeckNames : line = DECK \o ": " \o X
      [] i = 3 -> line = METADATA_DELIM

\* where a reader of question/answer segments stands after lines 4..n of d
RECURSIVE SegmentMode(_, _)
SegmentMode(d, n) ==
    IF n <= 3 THEN "expect"
    ELSE LET before == SegmentMode(d, n - 1)
             t == TypeOf(d[n])
         IN CASE before = "expect" ->
                    IF t = "QuestionStart" THEN "question" ELSE "bad"
              [] before = "question" ->
                    IF t = "AnswerStart" THEN "answer"
                    ELSE IF IsContinuation(d[n]) THEN "question" ELSE "bad"
              [] before = "answer" ->
                    IF t = "QuestionStart" THEN "question"
                    ELSE IF IsContinuation(d[n]) THEN "answer" ELSE "bad"
              [] before = "bad" -> "bad"

WellFormedPrefix(d) ==
    /\ \A i \in 1..Len(d) : i <= 3 => HeaderLine(d[i], i)
    /\ SegmentMode(d, Len(d)) # "bad"

WellFormed(d) ==
    /\ Len(d) >= 5
    /\ WellFormedPrefix(d)
    /\ SegmentMode(d, Len(d)) = "answer"

QuestionStarts(d) == {i \in 1..Len(d) : TypeOf(d[i]) = "QuestionStart"}
AnswerStarts(d) == {i \in 1..Len(d) : TypeOf(d[i]) = "AnswerStart"}

Min(S) == CHOOSE x \in S : \A y \in S : x <= y

\* the k-th smallest member of S
Kth(S, k) == CHOOSE x \in S : Cardinality({y \in S : y < x}) = k - 1

\* lines m..n of d, each followed by a newline
RECURSIVE JoinLines(_, _, _)
JoinLines(d, m, n) ==
    IF m > n THEN "" ELSE d[m] \o "\n" \o JoinLines(d, m + 1, n)

Rest(line, token) == SubSeq(line, Len(token) + 1, Len(line))

\* the k-th note of a well-formed document d
ExpectedNote(d, k) ==
    LET q == Kth(QuestionStarts(d), k)
        a == Min({j \in AnswerStarts(d) : j > q})
        later == {j \in QuestionStarts(d) : j > q}
        last == IF later = {} THEN Len(d) ELSE Min(later) - 1
    IN ParsedNote(trim(Rest(d[2], DECK \o ":")),
                  to_html(Rest(d[q], QuestionToken) \o "\n" \o JoinLines(d, q + 1, a - 1)),
                  to_html(Rest(d[a], AnswerToken) \o "\n" \o JoinLines(d, a + 1, last)))

ExpectedNotes(d) ==
    [k \in 1..Cardinality(QuestionStarts(d)) |-> ExpectedNote(d, k)]

FreshEntry == entry = NewParser

C1_WitnessContinuation ==
    /\ FreshEntry
    /\ op = "finalize"
    /\ WellFormed(doc)
    /\ \E i \in 5..Len(doc) : IsContinuation(doc[i])

(***************************************************************************)
(* Steps and outcomes the claims speak about.                              *)
(***************************************************************************)
\* the parse of the current document is over, by a failing line or by finalize
ParseEnded ==
    \/ op = "finalize"
    \/ op = "handle_event" /\ result # Ok

\* what parse_file returned: the error, or Ok with the notes
Outcome ==
    [ r |-> result,
      notes |-> IF op = "finalize" /\ result = Ok THEN sink[Len(sink)] ELSE <<>> ]

\* parse_file of a new AnkiMarkdownHandler over the lines d
RECURSIVE FreshRun(_, _, _)
FreshRun(p, d, i) ==
    IF i > Len(d) THEN
        LET f == finalize(p) IN [r |-> f.r, notes |-> f.notes]
    ELSE
        LET out == handle_event(p, d[i]) IN
        IF out.r # Ok THEN [r |-> out.r, notes |-> <<>>]
        ELSE FreshRun(out.p, d, i + 1)

ParseAlone(d) == FreshRun(NewParser, d, 1)

\* this step attempts a note assembly (finalize_note)
AssemblyAttempted ==
    /\ parser.state = "InAnswer"
    /\ \/ op' = "finalize"
       \/ op' = "handle_event" /\ event_type'.type = "QuestionStart"

AllNotes ==
    {parser.parsed[i] : i \in 1..Len(parser.parsed)}
        \cup UNION {{sink[b][i] : i \in 1..Len(sink[b])} : b \in 1..Len(sink)}

IsPrefix(d, e) == Len(d) <= Len(e) /\ d = SubSeq(e, 1, Len(d))

(***************************************************************************)
(* C2.  finalize invoked in a state other than InAnswer returns            *)
(* UnexpectedParsingEnd.                                                   *)
(***************************************************************************)
C2_FinalizeOutsideAnswer ==
    [][(op' = "finalize" /\ parser.state # "InAnswer")
          => result' = UnexpectedParsingEnd]_vars

(***************************************************************************)
(* C3.  A note assembly attempted while no deck is set fails with          *)
(* MissingDeck and appends no note; no note exists without a deck that a   *)
(* metadata line set; the document fence, fence, question, answer, read    *)
(* from the start state, fails with MissingDeck.                           *)
(***************************************************************************)
NoDeckDoc == <<"---", "---", "Q: h", "A: h">>

C3_AssemblyNeedsDeck ==
    [][(AssemblyAttempted /\ parser.deck = None)
          => /\ result' = MissingDeck
             /\ parser'.parsed = parser.parsed
             /\ sink' = sink]_vars

C3_NotesHaveDeck == \A note \in AllNotes : note.deck \in DeckNames

C3_Scenario ==
    (entry.state = "Start" /\ IsPrefix(doc, NoDeckDoc)) =>
        /\ op = "handle_event" => result = Ok
        /\ (op = "finalize" /\ doc = NoDeckDoc) =>
              result = MissingDeck /\ sync_result = MissingDeck

C3_MissingDeck ==
    /\ C3_AssemblyNeedsDeck
    /\ [](C3_NotesHaveDeck /\ C3_Scenario)

\* the scenario has run to its finalize
C3_Witness ==
    /\ entry.state = "Start"
    /\ doc = NoDeckDoc
    /\ op = "finalize"
    /\ result = MissingDeck
    /\ parser.parsed = <<>>

(***************************************************************************)
(* C4.  Notes are posted for a document only when its parse succeeded, and *)
(* the batch posted holds no note that was assembled before the document   *)
(* was opened, that is, while parsing an earlier document that failed.     *)
(***************************************************************************)
C4_AllOrNothing ==
    [][Len(sink') > Len(sink)
          => /\ op' = "finalize"
             /\ result' = Ok
             /\ entry.parsed = <<>>]_vars

(***************************************************************************)
(* C5.  The outcome of parsing a document (its notes, or its error with    *)
(* the reported line number) is that of parsing the document alone with a  *)
(* fresh parser, whatever was parsed before.                               *)
(***************************************************************************)
C5_NoSharedState == ParseEnded => Outcome = ParseAlone(doc)

(***************************************************************************)
(* C6.  After a successful finalize the parser is as a freshly created     *)
(* one: state Start, no deck, empty buffers, empty note list, line counter *)
(* at its initial value.                                                   *)
(***************************************************************************)
C6_FinalizeResets == (op = "finalize" /\ result = Ok) => parser = NewParser

(***************************************************************************)
(* C7.  The classifier returns MetadataDelimiter exactly for the line that *)
(* is the fence literal, otherwise QuestionStart(rest), AnswerStart(rest), *)
(* Empty or Text(line), in that precedence.                                *)
(***************************************************************************)
ClassifiedAsSpecified(line) ==
    IF line = METADATA_DELIM THEN [type |-> "MetadataDelimiter"]
    ELSE IF starts_with(line, QuestionToken) THEN
        [type |-> "QuestionStart", text |-> Rest(line, QuestionToken)]
    ELSE IF starts_with(line, AnswerToken) THEN
        [type |-> "AnswerStart", text |-> Rest(line, AnswerToken)]
    ELSE IF line = "" THEN [type |-> "Empty"]
    ELSE [type |-> "Text", text |-> line]

C7_Classifier ==
    op = "handle_event" => event_type = ClassifiedAsSpecified(doc[Len(doc)])

(***************************************************************************)
(* C8.  An AnswerStart line in a state other than InQuestion fails with    *)
(* InvalidStateChange(n), n the 0-based index of the line within the       *)
(* document; in InQuestion it appends rest and a newline to the answer     *)
(* buffer and moves to InAnswer.                                           *)
(***************************************************************************)
C8_AnswerStart ==
    [][(op' = "handle_event" /\ event_type'.type = "AnswerStart")
          => IF parser.state = "InQuestion"
             THEN /\ result' = Ok
                  /\ parser'.answer = parser.answer \o event_type'.text \o "\n"
                  /\ parser'.state = "InAnswer"
             ELSE result' = InvalidStateChange(Len(doc))]_vars

(***************************************************************************)
(* C9.  Every failure that aborts a document carries the 0-based number of *)
(* the line at which it occurred.                                          *)
(***************************************************************************)
C9_ErrorsCarryLine ==
    (ParseEnded /\ result # Ok) =>
        /\ "line" \in DOMAIN result
        /\ op = "handle_event" => result.line = Len(doc) - 1

(***************************************************************************)
(* C10.  Every handle_event call adds exactly one to the line counter,     *)
(* whether it succeeds or fails; no other step changes the counter; the    *)
(* number an InvalidStateChange of handle_event carries is the value the   *)
(* counter had when the line was processed.                                *)
(***************************************************************************)
C10_LineCounter ==
    [][/\ op' = "handle_event" => parser'.line_num = parser.line_num + 1
       /\ op' # "handle_event" => parser'.line_num = parser.line_num
       /\ (op' = "handle_event" /\ result'.kind = "InvalidStateChange")
             => result'.line = parser.line_num]_vars

\* a failing call has advanced a counter that was not at its initial value
C10_Witness ==
    /\ op = "handle_event"
    /\ result.kind = "InvalidStateChange"
    /\ result.line > 0
    /\ parser.line_num = result.line + 1

(***************************************************************************)
(* Steps of handle_event by the kind of the line, and what a step leaves   *)
(* alone.                                                                  *)
(***************************************************************************)
EventStep(type) == op' = "handle_event" /\ event_type'.type = type

\* the line the step handles
Line == doc'[Len(doc')]

\* the call changed nothing but the line counter
OnlyCounted == parser' = [parser EXCEPT !.line_num = @ + 1]

\* this step built a note
Assembled ==
    \/ Len(parser'.parsed) > Len(parser.parsed)
    \/ Len(sink') > Len(sink)

\* the note the buffers and the deck of p make
NoteOf(p) == ParsedNote(p.deck[1], to_html(p.question), to_html(p.answer))

Max(S) == CHOOSE x \in S : \A y \in S : x >= y

(***************************************************************************)
(* C13.  As stated: a QuestionStart line in InAnswer always assembles one  *)
(* note, clears the buffers, keeps the deck, appends rest and a newline    *)
(* to the question buffer and moves to InQuestion.                         *)
(***************************************************************************)
C13_AlwaysAssembles ==
    [][(EventStep("QuestionStart") /\ parser.state = "InAnswer")
          => /\ result' = Ok
             /\ Len(parser'.parsed) = Len(parser.parsed) + 1
             /\ parser'.state = "InQuestion"]_vars

(***************************************************************************)
(* C13, amended.  A QuestionStart line in InAnswer with a deck set appends *)
(* exactly the note of the current buffers and deck, clears the buffers,   *)
(* keeps the deck, appends rest and a newline to the question buffer and   *)
(* moves to InQuestion; with no deck set it fails with MissingDeck and     *)
(* changes nothing; in ExpectingQuestion it only appends and moves to      *)
(* InQuestion; in Start, InMetadata and InQuestion it fails with           *)
(* InvalidStateChange.  No other event assembles a note.                   *)
(***************************************************************************)
C13_QuestionStart ==
    [][/\ EventStep("QuestionStart") =>
            CASE parser.state = "InAnswer" /\ parser.deck # None ->
                    /\ result' = Ok
                    /\ parser' = [parser EXCEPT
                                     !.parsed = Append(@, NoteOf(parser)),
                                     !.answer = "",
                                     !.question = event_type'.text \o "\n",
                                     !.state = "InQuestion",
                                     !.line_num = @ + 1]
              [] parser.state = "InAnswer" /\ parser.deck = None ->
                    result' = MissingDeck /\ OnlyCounted
              [] parser.state = "ExpectingQuestion" ->
                    /\ result' = Ok
                    /\ parser' = [parser EXCEPT
                                     !.question = @ \o event_type'.text \o "\n",
                                     !.state = "InQuestion",
                                     !.line_num = @ + 1]
              [] parser.state \in {"Start", "InMetadata", "InQuestion"} ->
                    result'.kind = "InvalidStateChange" /\ OnlyCounted
       /\ (op' = "handle_event" /\ parser'.parsed # parser.parsed)
             => event_type'.type = "QuestionStart"]_vars

\* a question line after an answer has closed a note and opened the next
C13_Witness ==
    /\ op = "handle_event"
    /\ event_type.type = "QuestionStart"
    /\ result = Ok
    /\ parser.state = "InQuestion"
    /\ Len(parser.parsed) >= 1
    /\ parser.answer = ""

(***************************************************************************)
(* C14.  A MetadataDelimiter event moves Start to InMetadata and           *)
(* InMetadata to ExpectingQuestion and changes nothing else of the scratch *)
(* state; in ExpectingQuestion, InQuestion and InAnswer it fails with      *)
(* InvalidStateChange: the fence is appended to no buffer and the state    *)
(* does not go back to the metadata block.                                 *)
(***************************************************************************)
C14_MetadataDelimiter ==
    [][EventStep("MetadataDelimiter") =>
          CASE parser.state = "Start" ->
                  /\ result' = Ok
                  /\ parser' = [parser EXCEPT !.state = "InMetadata",
                                              !.line_num = @ + 1]
            [] parser.state = "InMetadata" ->
                  /\ result' = Ok
                  /\ parser' = [parser EXCEPT !.state = "ExpectingQuestion",
                                              !.line_num = @ + 1]
            [] parser.state \in {"ExpectingQuestion", "InQuestion", "InAnswer"} ->
                  /\ result'.kind = "InvalidStateChange"
                  /\ OnlyCounted]_vars

\* a fence inside an answer body has been refused
C14_Witness ==
    /\ op = "handle_event"
    /\ event_type.type = "MetadataDelimiter"
    /\ result.kind = "InvalidStateChange"
    /\ parser.state = "InAnswer"
    /\ parser.answer # ""

(***************************************************************************)
(* C15.  In InQuestion (InAnswer) a Text line appends the line and a       *)
(* newline, an Empty line exactly one newline, to the question (answer)    *)
(* buffer and the state stays; the buffers of a segment begun in the       *)
(* document, and so the texts rendered at its assembly, are the            *)
(* prefix-stripped first line and every continuation line, in order, each  *)
(* followed by a newline; an Empty line in Start, InMetadata or            *)
(* ExpectingQuestion changes nothing and succeeds; a Text line in Start or *)
(* ExpectingQuestion fails with InvalidStateChange.                        *)
(***************************************************************************)
C15_ContinuationSteps ==
    /\ EventStep("Text") =>
          CASE parser.state = "InQuestion" ->
                  /\ result' = Ok
                  /\ parser' = [parser EXCEPT !.question = @ \o Line \o "\n",
                                              !.line_num = @ + 1]
            [] parser.state = "InAnswer" ->
                  /\ result' = Ok
                  /\ parser' = [parser EXCEPT !.answer = @ \o Line \o "\n",
                                              !.line_num = @ + 1]
            [] parser.state \in {"Start", "ExpectingQuestion"} ->
                  result'.kind = "InvalidStateChange" /\ OnlyCounted
            [] parser.state = "InMetadata" -> TRUE
    /\ EventStep("Empty") =>
          /\ result' = Ok
          /\ CASE parser.state = "InQuestion" ->
                    parser' = [parser EXCEPT !.question = @ \o "\n",
                                             !.line_num = @ + 1]
               [] parser.state = "InAnswer" ->
                    parser' = [parser EXCEPT !.answer = @ \o "\n",
                                             !.line_num = @ + 1]
               [] parser.state \in {"Start", "InMetadata", "ExpectingQuestion"} ->
                    OnlyCounted
    /\ Assembled =>
          LET notes == IF Len(sink') > Len(sink) THEN sink'[Len(sink')]
                       ELSE parser'.parsed
          IN /\ notes[Len(notes)].question = to_html(parser.question)
             /\ notes[Len(notes)].answer = to_html(parser.answer)

\* the segment a buffer holds began in this document and no line has failed
SegmentInDoc ==
    /\ pc = "reading"
    /\ entry.state \notin {"InQuestion", "InAnswer"}
    /\ parser.state \in {"InQuestion", "InAnswer"}

C15_BuffersAreSegments ==
    SegmentInDoc =>
        LET q == Max(QuestionStarts(doc))
            first == Rest(doc[q], QuestionToken) \o "\n"
        IN IF parser.state = "InQuestion"
           THEN parser.question = first \o JoinLines(doc, q + 1, Len(doc))
           ELSE LET a == Max(AnswerStarts(doc)) IN
                /\ parser.question = first \o JoinLines(doc, q + 1, a - 1)
                /\ parser.answer = Rest(doc[a], AnswerToken) \o "\n"
                                      \o JoinLines(doc, a + 1, Len(doc))

C15_Continuation ==
    /\ [][C15_ContinuationSteps]_vars
    /\ []C15_BuffersAreSegments

\* a question of a first line, a blank line and a text line, then its answer
C15_Witness ==
    /\ SegmentInDoc
    /\ parser.state = "InAnswer"
    /\ parser.question = "h\n\nx\n"

(***************************************************************************)
(* C16.  As stated: the question buffer is non-empty only in InQuestion    *)
(* and the answer buffer only in InAnswer.                                 *)
(***************************************************************************)
C16_BuffersOnlyInOwnState ==
    /\ parser.question # "" => parser.state = "InQuestion"
    /\ parser.answer # "" => parser.state = "InAnswer"

(***************************************************************************)
(* C16, amended.  The question buffer is non-empty only in InQuestion and  *)
(* InAnswer (it is kept through the answer until the note is assembled),   *)
(* the answer buffer only in InAnswer; a note assembly clears both, after  *)
(* which the question buffer holds at most the first line of the question  *)
(* that triggered the assembly.                                            *)
(***************************************************************************)
C16_BufferStates ==
    /\ parser.question # "" => parser.state \in {"InQuestion", "InAnswer"}
    /\ parser.answer # "" => parser.state = "InAnswer"

C16_AssemblyClears ==
    Assembled =>
        /\ parser'.answer = ""
        /\ parser'.question =
              IF op' = "finalize" THEN "" ELSE event_type'.text \o "\n"

C16_Buffers ==
    /\ []C16_BufferStates
    /\ [][C16_AssemblyClears]_vars

\* in an answer, with the question still held
C16_Witness ==
    /\ parser.state = "InAnswer"
    /\ parser.question # ""
    /\ parser.answer # ""
    /\ Len(parser.parsed) >= 1

(***************************************************************************)
(* C17.  A handle_event that returns an error leaves state, deck, buffers  *)
(* and note list as they were and advances only the line counter; a        *)
(* finalize that returns an error leaves every field as it was.            *)
(***************************************************************************)
C17_FailureFrame ==
    [][/\ (op' = "handle_event" /\ result' # Ok) => OnlyCounted
       /\ (op' = "finalize" /\ result' # Ok) => parser' = parser /\ sink' = sink]_vars

\* finalize has failed for want of a deck, the note-to-be still in the buffers
C17_Witness ==
    /\ op = "finalize"
    /\ result = MissingDeck
    /\ parser.state = "InAnswer"
    /\ parser.question # ""
    /\ parser.answer # ""

(***************************************************************************)
(* C19.  A note is assembled only in state InAnswer, and at every assembly *)
(* the question buffer and the answer buffer are both non-empty, whatever  *)
(* the lines were.                                                         *)
(***************************************************************************)
C19_AssemblyInAnswer ==
    [][Assembled => /\ parser.state = "InAnswer"
                    /\ Len(parser.question) >= 1
                    /\ Len(parser.answer) >= 1]_vars

\* a batch whose last note was assembled by finalize has been posted
C19_Witness ==
    /\ op = "finalize"
    /\ sink # <<>>
    /\ \E i \in 1..Len(sink[Len(sink)]) :
          /\ Len(sink[Len(sink)][i].question.html) >= 1
          /\ Len(sink[Len(sink)][i].answer.html) >= 1

(***************************************************************************)
(* Metadata lines, read as the specification reads them: key and value     *)
(* around the first colon.                                                 *)
(***************************************************************************)
Colons(line) == {i \in 1..Len(line) : CharAt(line, i) = ":"}

KeyOf(line) == SubSeq(line, 1, Min(Colons(line)) - 1)

ValueOf(line) == trim(SubSeq(line, Min(Colons(line)) + 1, Len(line)))

IsDeckLine(line) == Colons(line) # {} /\ KeyOf(line) = DECK

Contains(text, part) ==
    \E i \in 1..(Len(text) - Len(part) + 1) : SubSeq(text, i, i + Len(part) - 1) = part

\* the step handles a Text line in the metadata block
MetadataTextStep == EventStep("Text") /\ parser.state = "InMetadata"

Body == {"ExpectingQuestion", "InQuestion", "InAnswer"}

(***************************************************************************)
(* C11.  As stated: once a deck line has set the deck, no later line of    *)
(* the same document changes the deck value.  (The document is read by a   *)
(* fresh parser, so a deck that is set was set by a line of the document.) *)
(***************************************************************************)
C11_SetOnce ==
    [][(FreshEntry /\ op' = "handle_event" /\ parser.deck # None)
          => parser'.deck = parser.deck]_vars

(***************************************************************************)
(* C11, amended.  Inside the metadata block every deck line sets the deck, *)
(* a later one replacing the value of an earlier one; once the block is    *)
(* closed no later line of the document changes the deck, and the state    *)
(* does not come back to the block.                                        *)
(***************************************************************************)
C11_DeckSetInBlock ==
    [][op' = "handle_event" =>
          /\ (MetadataTextStep /\ result' = Ok) => parser'.deck = Some(ValueOf(Line))
          /\ parser.state # "InMetadata" => parser'.deck = parser.deck
          /\ parser.state \in Body => parser'.state \in Body]_vars

\* a second deck line has replaced the value of the first
C11_Witness ==
    /\ FreshEntry
    /\ op = "handle_event"
    /\ result = Ok
    /\ parser.state = "InMetadata"
    /\ Len(doc) = 3
    /\ doc[2] = "deck: S"
    /\ doc[3] = "deck:T "
    /\ parser.deck = Some("T")

(***************************************************************************)
(* C12.  In InMetadata a Text line is split on its first colon: with the   *)
(* key deck the deck becomes the trimmed remainder, colons included, and   *)
(* the state stays; without a colon or with another key the result is      *)
(* InvalidMetadata, its detail holding the line, and the deck is as it     *)
(* was.                                                                    *)
(***************************************************************************)
C12_FirstColonSplit ==
    [][MetadataTextStep =>
          IF IsDeckLine(Line)
          THEN /\ result' = Ok
               /\ parser' = [parser EXCEPT !.deck = Some(ValueOf(Line)),
                                           !.line_num = @ + 1]
          ELSE /\ result'.kind = "InvalidMetadata"
               /\ Contains(result'.detail, Line)
               /\ parser'.deck = parser.deck]_vars

(***************************************************************************)
(* C18.  On a fresh parser a line changes the deck only in InMetadata, and *)
(* from InQuestion on the state stays in InQuestion or InAnswer until a    *)
(* successful finalize; every note returned for the document carries the   *)
(* value of the last deck line of the metadata block.                      *)
(***************************************************************************)
Fences(d) == {i \in 1..Len(d) : TypeOf(d[i]) = "MetadataDelimiter"}

\* the lines between the opening and the closing fence that set the deck
BlockDeckLines(d) ==
    LET open == Min(Fences(d))
        close == Min({i \in Fences(d) : i > open})
    IN {i \in (open + 1)..(close - 1) : TypeOf(d[i]) = "Text" /\ IsDeckLine(d[i])}

LastDeckOfBlock(d) == ValueOf(d[Max(BlockDeckLines(d))])

C18_Steps ==
    FreshEntry =>
        /\ (op' = "handle_event" /\ parser'.deck # parser.deck)
              => parser.state = "InMetadata"
        /\ (parser.state \in {"InQuestion", "InAnswer"}
              /\ parser'.state \notin {"InQuestion", "InAnswer"})
              => op' = "finalize" /\ result' = Ok

C18_ReturnedDeck ==
    (FreshEntry /\ op = "finalize" /\ result = Ok) =>
        \A i \in 1..Len(sink[Len(sink)]) :
            sink[Len(sink)][i].deck = LastDeckOfBlock(doc)

C18_OneDeckPerDocument ==
    /\ [][C18_Steps]_vars
    /\ []C18_ReturnedDeck

\* a document with two deck lines has returned its note
C18_Witness ==
    /\ FreshEntry
    /\ op = "finalize"
    /\ result = Ok
    /\ Cardinality(BlockDeckLines(doc)) = 2
    /\ sink[Len(sink)][1].deck = "T"

(***************************************************************************)
(* C20.  For every pair of tokens and every line that starts with a token  *)
(* (and not with the fence), the rest carried by QuestionStart and         *)
(* AnswerStart is the line with the whole token removed.                   *)
(***************************************************************************)
C20_TokenRemoved ==
    op = "classify" =>
        LET line == doc[1]
            q == tokens.question_token
            a == tokens.answer_token
        IN IF starts_with(line, METADATA_DELIM) THEN TRUE
           ELSE IF starts_with(line, q)
           THEN event_type = [type |-> "QuestionStart", text |-> Rest(line, q)]
           ELSE starts_with(line, a)
                   => event_type = [type |-> "AnswerStart", text |-> Rest(line, a)]
====
